---- MODULE Spec2Model ----
(***************************************************************************)
(* CV Pulse AI (src/src/App.jsx): the lexical metrics engine               *)
(* (calculateStats), the two result generators (realGeminiAnalysis,        *)
(* mockAIAnalysis) and the App component's analysis session (handleAnalyze,*)
(* reset and the controls each screen renders).                            *)
(*                                                                         *)
(* JavaScript strings are sequences of one-character strings, so that      *)
(* split, match and toLowerCase are computed character by character.       *)
(* null and undefined are the records Null and Undefined.                  *)
(***************************************************************************)
EXTENDS Integers, Sequences, FiniteSets, TLC

VARIABLES
    API_KEY,           \* module constant API_KEY, fixed when the bundle loads
    step,              \* useState(1): 1 Input, 2 Analyzing, 3 Report
    resumeText,        \* useState('')
    jobDesc,           \* useState('')
    stats,             \* useState(null)
    aiResult,          \* useState(null)
    isPro,             \* useState(false)
    showUpgradeModal,  \* useState(false)
    inflight,          \* handleAnalyze invocations suspended at their await
    history,           \* per submission past validation: generator calls, outcome
    rejects,           \* number of validation alerts shown
    statsCalls         \* number of calculateStats invocations

vars == <<API_KEY, step, resumeText, jobDesc, stats, aiResult, isPro,
          showUpgradeModal, inflight, history, rejects, statsCalls>>

----------------------------------------------------------------------------
(* Bounds *)

MaxSubmissions == 2
MaxRejects == 2
MaxFill == 27

----------------------------------------------------------------------------
(* JavaScript values and string helpers *)

Null == [js |-> "null"]
Undefined == [js |-> "undefined"]

Truthy(s) == Len(s) > 0

\* s repeated n times
Rep(s, n) == [i \in 1..(n * Len(s)) |-> s[((i - 1) % Len(s)) + 1]]

Uppers == <<"A","B","C","D","E","F","G","H","I","J","K","L","M","N","O","P","Q","R","S","T","U","V","W","X","Y","Z">>
Lowers == <<"a","b","c","d","e","f","g","h","i","j","k","l","m","n","o","p","q","r","s","t","u","v","w","x","y","z">>

ToLowerChar(c) ==
    IF \E i \in 1..Len(Uppers) : Uppers[i] = c
    THEN Lowers[CHOOSE i \in 1..Len(Uppers) : Uppers[i] = c]
    ELSE c

toLowerCase(w) == [i \in 1..Len(w) |-> ToLowerChar(w[i])]

Whitespace == {" ", "\n", "\t"}
SentenceEnd == {".", "!", "?"}
Digit == {"0","1","2","3","4","5","6","7","8","9"}
QuantSuffix == {"%", "k", "K", "m", "M", "+"}

\* the least element of a non-empty set of integers
Least(S) == CHOOSE x \in S : \A y \in S : x <= y

\* first index >= i of text that holds no element of Class (Len(text) + 1
\* when the run reaches the end of the text)
RunEnd(text, Class, i) ==
    Least({j \in i..(Len(text) + 1) : j > Len(text) \/ text[j] \notin Class})

\* String.prototype.split with a separator regex of the form /[set]+/:
\* from position i, the leftmost separator is the maximal run of separator
\* characters that starts at the first separator character; the piece
\* before it is emitted (empty pieces included) and the search goes on
\* after it; without a separator the rest of the text is the last piece.
RECURSIVE SplitFrom(_, _, _)
SplitFrom(text, Sep, i) ==
    LET seps == {j \in i..Len(text) : text[j] \in Sep}
    IN  IF seps = {} THEN <<SubSeq(text, i, Len(text))>>
        ELSE LET j == Least(seps)
             IN  <<SubSeq(text, i, j - 1)>> \o SplitFrom(text, Sep, RunEnd(text, Sep, j))

Split(text, Sep) == SplitFrom(text, Sep, 1)

NonEmpty(piece) == Len(piece) > 0

words(text) == SelectSeq(Split(text, Whitespace), NonEmpty)
sentences(text) == SelectSeq(Split(text, SentenceEnd), NonEmpty)

\* /(\d+%|\$\d+|\d+k|\d+m|\d+\+)/i tried at position i: the index after
\* the match, or 0 without a match.  At a digit the run of digits must be
\* followed by %, k, m or + (either case for k and m); at a $ at least one
\* digit must follow and the match takes the whole run of digits.
MatchAt(text, i) ==
    IF text[i] \in Digit
    THEN LET j == RunEnd(text, Digit, i)
         IN  IF j <= Len(text) /\ text[j] \in QuantSuffix THEN j + 1 ELSE 0
    ELSE IF text[i] = "$" /\ i < Len(text) /\ text[i + 1] \in Digit
         THEN RunEnd(text, Digit, i + 1)
         ELSE 0

\* text.match(/.../gi): the number of non-overlapping matches, each search
\* starting where the previous match ended
RECURSIVE MatchCount(_, _)
MatchCount(text, i) ==
    LET starts == {j \in i..Len(text) : MatchAt(text, j) # 0}
    IN  IF starts = {} THEN 0
        ELSE 1 + MatchCount(text, MatchAt(text, Least(starts)))

quantifiers(text) == MatchCount(text, 1)

strongVerbs == {
    <<"s","p","e","a","r","h","e","a","d","e","d">>,
    <<"o","r","c","h","e","s","t","r","a","t","e","d">>,
    <<"d","e","v","e","l","o","p","e","d">>,
    <<"e","n","g","i","n","e","e","r","e","d">>,
    <<"i","m","p","l","e","m","e","n","t","e","d">>,
    <<"g","e","n","e","r","a","t","e","d">>,
    <<"i","n","c","r","e","a","s","e","d">>,
    <<"r","e","d","u","c","e","d">>,
    <<"l","a","u","n","c","h","e","d">>}

weakVerbs == {
    <<"h","e","l","p","e","d">>,
    <<"w","o","r","k","e","d">>,
    <<"r","e","s","p","o","n","s","i","b","l","e">>,
    <<"a","s","s","i","s","t","e","d">>,
    <<"p","a","r","t","i","c","i","p","a","t","e","d">>}

\* number of elements of ws whose lower-cased form is in verbs
CountIn(ws, verbs) == Cardinality({i \in 1..Len(ws) : toLowerCase(ws[i]) \in verbs})

\* Math.round(num / den) for num >= 0, den > 0: halves round up.  The code
\* computes the quotient in IEEE doubles; within the bounds of this model
\* (fewer than 12 sentences, fewer than 23 strong verbs) the double result
\* equals the exact one.
MathRound(num, den) == (2 * num + den) \div (2 * den)

MathMin(a, b) == IF a < b THEN a ELSE b

\* x || 1 for a non-negative integer x
OrOne(x) == IF x = 0 THEN 1 ELSE x

impactScore_NoClamp(q, s) == MathRound(q * 150, OrOne(s))

impactScore(q, s) == MathMin(100, MathRound(q * 150, OrOne(s)))

verbScore(strongCount, weakCount) ==
    MathMin(100, MathRound(strongCount * 100, strongCount + weakCount + 1))

brevityScore_Inclusive(w, s) ==
    IF w >= 25 * OrOne(s) THEN 40
    ELSE IF w >= 15 * OrOne(s) THEN 100 ELSE 80

\* avgSentenceLength = w / (s || 1); avg > 25 is w > 25 * (s || 1)
brevityScore(w, s) ==
    IF w > 25 * OrOne(s) THEN 40
    ELSE IF w > 15 * OrOne(s) THEN 100 ELSE 80

calculateStats(text) ==
    IF ~Truthy(text) THEN Null
    ELSE LET ws == words(text)
             ss == sentences(text)
         IN  [wordCount    |-> Len(ws),
              impactScore  |-> impactScore(quantifiers(text), Len(ss)),
              verbScore    |-> verbScore(CountIn(ws, strongVerbs), CountIn(ws, weakVerbs)),
              brevityScore |-> brevityScore(Len(ws), Len(ss))]

----------------------------------------------------------------------------
(* Inputs of the metrics engine: a head of special tokens, n filler words, *)
(* a run of sentence terminators and a tail.                               *)

Heads == {
    <<>>,
    <<"i","n","c","r","e","a","s","e","d">>,
    <<"H","E","L","P","E","D"," ","L","a","u","n","c","h","e","d">>,
    <<"h","e","l","p","i","n","g"," ","H","e","l","p","e","d",".">>,
    <<"$","5","3","k"," ","7","M"," ","1","0","+">>,
    <<"W","o","r","k","e","d"," ","o","n"," ","3"," ","t","h","i","n","g","s"," ","2","0","%">> }

Terms == { <<>>, <<".">>, <<"!","?">>, <<".",".",".">> }

Tails == { <<>>, <<" ","b","\n","c">>, <<"\t","r","e","d","u","c","e","d"," ","b","y"," ","1","5","%","!">> }

StatTexts ==
    { h \o Rep(<<" ","a">>, n) \o t \o l :
        h \in Heads, n \in 0..MaxFill, t \in Terms, l \in Tails }

StatsInit ==
    /\ API_KEY = <<>>
    /\ step = 1
    /\ resumeText \in StatTexts
    /\ jobDesc = <<>>
    /\ stats = Null
    /\ aiResult = Null
    /\ isPro = FALSE
    /\ showUpgradeModal = FALSE
    /\ inflight = {}
    /\ history = <<>>
    /\ rejects = 0
    /\ statsCalls = 0

\* one application of calculateStats to the input text
ComputeStats ==
    /\ statsCalls = 0
    /\ stats' = calculateStats(resumeText)
    /\ statsCalls' = 1
    /\ UNCHANGED <<API_KEY, step, resumeText, jobDesc, aiResult, isPro,
                   showUpgradeModal, inflight, history, rejects>>

StatsNext == ComputeStats

SpecStats == StatsInit /\ [][StatsNext]_vars

----------------------------------------------------------------------------
(* The result generators *)

MockResult(keywords) ==
    [summary |-> "This candidate shows strong technical potential but lacks quantitative evidence. The structure is ATS-friendly, but the language is too passive. (MOCK DATA - Add API Key to see real results)",
     bulletPoints |-> <<
        [original |-> "Worked on a React project for a client.",
         improved |-> "Architected a scalable React application for a Fortune 500 client, reducing page load time by 40%."],
        [original |-> "Responsible for managing a team.",
         improved |-> "Spearheaded a cross-functional team of 10 engineers, delivering the Q4 roadmap 2 weeks ahead of schedule."] >>,
     missingKeywords |-> keywords,
     softSkills |-> <<"Communication", "Problem Solving">>,
     score |-> 72]

mockAIAnalysis_KeywordsFromText(text, jd) ==
    MockResult(IF Truthy(text) THEN <<"Kubernetes", "CI/CD", "System Design">>
               ELSE <<"Leadership", "Optimization">>)

\* the value the promise of mockAIAnalysis resolves with
mockAIAnalysis(text, jd) ==
    MockResult(IF Truthy(jd) THEN <<"Kubernetes", "CI/CD", "System Design">>
               ELSE <<"Leadership", "Optimization">>)

\* The text of a model response, as a sequence of chunks: code-fence
\* markers, whitespace and bodies.  A body is either the JSON text of an
\* object or prose.
\* the two code-fence markers: three backquotes followed by json, and three
\* backquotes alone
FenceChunks == {"<fence>json", "<fence>"}
SpaceChunks == {"\n"}
JsonValue ==
    [ResultJson |->
        [summary |-> "Solid but generic.",
         bulletPoints |-> <<[original |-> "Helped the team.", improved |-> "Accomplished X as measured by Y, by doing Z."]>>,
         missingKeywords |-> <<"Terraform">>,
         softSkills |-> <<"Ownership">>,
         score |-> 64],
     EmptyObjectJson |-> [js |-> "emptyObject"]]

Thrown == [js |-> "throw"]

\* textResponse.replace(/<fence>json|<fence>/g, '')
StripFences(chunks) == SelectSeq(chunks, LAMBDA c : c \notin FenceChunks)

\* String.prototype.trim
RECURSIVE Trim(_)
Trim(chunks) ==
    IF chunks = <<>> THEN chunks
    ELSE IF Head(chunks) \in SpaceChunks THEN Trim(Tail(chunks))
    ELSE IF chunks[Len(chunks)] \in SpaceChunks THEN Trim(SubSeq(chunks, 1, Len(chunks) - 1))
    ELSE chunks

\* JSON.parse: the value of a text that is exactly one JSON body, a
\* SyntaxError for anything else
JSONParse(chunks) ==
    IF Len(chunks) = 1 /\ chunks[1] \in DOMAIN JsonValue THEN JsonValue[chunks[1]] ELSE Thrown

\* what the remote service does with one generateContent call: the promise
\* rejects, or it resolves with a response whose text is one of these
ResponseTexts == {
    <<"ResultJson">>,
    <<"<fence>json", "\n", "ResultJson", "\n", "<fence>">>,
    <<"Here is the analysis:", "\n", "<fence>json", "ResultJson", "<fence>">>,
    <<"I cannot help with that.">>,
    <<"EmptyObjectJson">>,
    <<>> }

RemoteOutcomes ==
    {[kind |-> "reject", chunks |-> <<>>]} \cup {[kind |-> "text", chunks |-> r] : r \in ResponseTexts}

\* the try block of realGeminiAnalysis after the call has settled: the
\* parsed value, or Thrown when generateContent rejected or JSON.parse threw
TryBlock(o) ==
    IF o.kind = "reject" THEN Thrown ELSE JSONParse(Trim(StripFences(o.chunks)))

RemoteFailed(o) == TryBlock(o) = Thrown

realGeminiAnalysis_MockOnError(o) ==
    IF RemoteFailed(o) THEN mockAIAnalysis(<<>>, <<>>) ELSE TryBlock(o)

\* the value the promise of realGeminiAnalysis resolves with: the catch
\* block alerts and falls off the end of the function
realGeminiAnalysis(o) ==
    IF RemoteFailed(o) THEN Undefined ELSE TryBlock(o)

----------------------------------------------------------------------------
(* The App component *)

MinResumeLength == 50

\* import.meta.env.VITE_GEMINI_API_KEY: not defined, or defined as a string
EnvValues == {
    [defined |-> FALSE, value |-> <<>>],
    [defined |-> TRUE,  value |-> <<>>],
    [defined |-> TRUE,  value |-> <<"A","I","z","a">>] }

\* import.meta.env.VITE_GEMINI_API_KEY || ""
ApiKeyFromEnv(env) == IF env.defined /\ Truthy(env.value) THEN env.value ELSE <<>>

\* what the user types or pastes into the two textareas
Texts == {
    <<>>,
    <<"H","e","l","p","e","d",".">>,
    Rep(<<"a">>, MinResumeLength - 1),
    Rep(<<"a">>, MinResumeLength),
    <<"I","n","c","r","e","a","s","e","d"," ","r","e","v","e","n","u","e"," ","b","y"," ","2","0","%"," ","a","n","d"," ","r","e","d","u","c","e","d"," ","c","o","s","t","s"," ","b","y"," ","1","5","%",".">>,
    Rep(<<"w","e"," ">>, 26) \o <<"W","o","r","k","e","d",".">> }

JobDescs == { <<>>, <<" ">>, <<"S","R","E">> }

Init ==
    /\ API_KEY \in {ApiKeyFromEnv(e) : e \in EnvValues}
    /\ step = 1
    /\ resumeText = <<>>
    /\ jobDesc = <<>>
    /\ stats = Null
    /\ aiResult = Null
    /\ isPro = FALSE
    /\ showUpgradeModal = FALSE
    /\ inflight = {}
    /\ history = <<>>
    /\ rejects = 0
    /\ statsCalls = 0

\* the screens: step 1 renders the two textareas and the Analyze button,
\* step 2 renders no control, any other step renders the report with the
\* New Scan button, the upgrade buttons and, when open, the upgrade modal
AnalyzeButtonRendered_AlsoWhileAnalyzing == step \in {1, 2}

AnalyzeButtonRendered == step = 1

TextareasRendered == step = 1

ReportRendered_AlsoWhileAnalyzing == step # 1

ReportRendered == step # 1 /\ step # 2

TooShort_OffByOne(text) == Len(text) < MinResumeLength - 1

\* resumeText.length < 50
TooShort(text) == Len(text) < MinResumeLength

SelectGenerator_NeedsJobDesc == IF Truthy(API_KEY) /\ Truthy(jobDesc) THEN "remote" ELSE "mock"

\* if (API_KEY) ... else ...
SelectGenerator == IF Truthy(API_KEY) THEN "remote" ELSE "mock"

\* onChange of the resume textarea
TypeResume(t) ==
    /\ TextareasRendered
    /\ resumeText' = t
    /\ UNCHANGED <<API_KEY, step, jobDesc, stats, aiResult, isPro,
                   showUpgradeModal, inflight, history, rejects, statsCalls>>

\* onChange of the job description textarea
TypeJobDesc(j) ==
    /\ TextareasRendered
    /\ jobDesc' = j
    /\ UNCHANGED <<API_KEY, step, resumeText, stats, aiResult, isPro,
                   showUpgradeModal, inflight, history, rejects, statsCalls>>

\* handleAnalyze up to its await, with newStats the value given to setStats:
\* the validation alert, or setStep(2), setStats and the call of the
\* selected generator, which leaves the invocation suspended
AnalyzeWith(newStats) ==
    IF TooShort(resumeText)
    THEN /\ rejects < MaxRejects
         /\ rejects' = rejects + 1
         /\ UNCHANGED <<API_KEY, step, resumeText, jobDesc, stats, aiResult, isPro,
                        showUpgradeModal, inflight, history, statsCalls>>
    ELSE /\ Len(history) < MaxSubmissions
         /\ step' = 2
         /\ stats' = newStats
         /\ statsCalls' = statsCalls + 1
         /\ inflight' = inflight \cup
               {[id |-> Len(history) + 1, gen |-> SelectGenerator,
                 text |-> resumeText, jobDesc |-> jobDesc]}
         /\ history' = Append(history,
               [remoteCalls |-> IF SelectGenerator = "remote" THEN 1 ELSE 0,
                mockCalls   |-> IF SelectGenerator = "mock" THEN 1 ELSE 0,
                outcome     |-> "pending",
                apiAlerts   |-> 0,
                reset       |-> FALSE,
                abandoned   |-> FALSE])
         /\ UNCHANGED <<API_KEY, resumeText, jobDesc, aiResult, isPro,
                        showUpgradeModal, rejects>>

handleAnalyze_StatsDeferred == AnalyzeWith(stats)

handleAnalyze == AnalyzeWith(calculateStats(resumeText))

\* the rest of handleAnalyze once the awaited promise has settled:
\* setAiResult(aiData); setStep(3)
Resume(c, aiData, failed) ==
    /\ aiResult' = aiData
    /\ step' = 3
    /\ inflight' = inflight \ {c}
    /\ history' = [history EXCEPT
          ![c.id].outcome = IF failed THEN "failed" ELSE "resolved",
          ![c.id].apiAlerts = @ + (IF failed THEN 1 ELSE 0)]
    /\ UNCHANGED <<API_KEY, resumeText, jobDesc, stats, isPro,
                   showUpgradeModal, rejects, statsCalls>>

RemoteSettles_FallbackToMock(c, o) ==
    /\ c \in inflight
    /\ c.gen = "remote"
    /\ IF RemoteFailed(o)
       THEN /\ inflight' = (inflight \ {c}) \cup {[c EXCEPT !.gen = "mock"]}
            /\ history' = [history EXCEPT ![c.id].mockCalls = @ + 1,
                                          ![c.id].apiAlerts = @ + 1]
            /\ UNCHANGED <<API_KEY, step, resumeText, jobDesc, stats, aiResult,
                           isPro, showUpgradeModal, rejects, statsCalls>>
       ELSE Resume(c, realGeminiAnalysis(o), FALSE)

RemoteSettles_Rethrows(c, o) ==
    /\ c \in inflight
    /\ c.gen = "remote"
    /\ IF RemoteFailed(o)
       THEN /\ inflight' = inflight \ {c}
            /\ history' = [history EXCEPT ![c.id].outcome = "failed",
                                          ![c.id].apiAlerts = @ + 1]
            /\ UNCHANGED <<API_KEY, step, resumeText, jobDesc, stats, aiResult,
                           isPro, showUpgradeModal, rejects, statsCalls>>
       ELSE Resume(c, realGeminiAnalysis(o), FALSE)

\* the generateContent call of invocation c settles with outcome o:
\* realGeminiAnalysis finishes (alerting on failure) and handleAnalyze
\* resumes with its value
RemoteSettles(c, o) ==
    /\ c \in inflight
    /\ c.gen = "remote"
    /\ Resume(c, realGeminiAnalysis(o), RemoteFailed(o))

MockTimerFires_NeverResolves(c) ==
    /\ c \in inflight
    /\ c.gen = "mock"
    /\ inflight' = inflight \ {c}
    /\ UNCHANGED <<API_KEY, step, resumeText, jobDesc, stats, aiResult, isPro,
                   showUpgradeModal, history, rejects, statsCalls>>

\* the 1500 ms timer of mockAIAnalysis fires and handleAnalyze resumes
MockTimerFires(c) ==
    /\ c \in inflight
    /\ c.gen = "mock"
    /\ Resume(c, mockAIAnalysis(c.text, c.jobDesc), FALSE)

reset_KeepsJobDesc ==
    /\ step' = 1
    /\ resumeText' = <<>>
    /\ stats' = Null
    /\ aiResult' = Null
    /\ history' = [i \in 1..Len(history) |->
          [history[i] EXCEPT !.reset = TRUE,
                             !.abandoned = @ \/ history[i].outcome = "pending"]]
    /\ UNCHANGED <<API_KEY, jobDesc, isPro, showUpgradeModal, inflight, rejects,
                   statsCalls>>

reset ==
    /\ step' = 1
    /\ resumeText' = <<>>
    /\ jobDesc' = <<>>
    /\ stats' = Null
    /\ aiResult' = Null
    /\ history' = [i \in 1..Len(history) |->
          [history[i] EXCEPT !.reset = TRUE,
                             !.abandoned = @ \/ history[i].outcome = "pending"]]
    /\ UNCHANGED <<API_KEY, isPro, showUpgradeModal, inflight, rejects, statsCalls>>

\* click on "Analyze My Resume"
ClickAnalyze == AnalyzeButtonRendered /\ handleAnalyze

\* click on "New Scan"
ClickNewScan == ReportRendered /\ reset

\* click on "Go Pro", "Download Report" or a locked item
OpenUpgradeModal ==
    /\ ReportRendered
    /\ showUpgradeModal' = TRUE
    /\ UNCHANGED <<API_KEY, step, resumeText, jobDesc, stats, aiResult, isPro,
                   inflight, history, rejects, statsCalls>>

\* click on "Unlock for $9/mo"
Unlock ==
    /\ ReportRendered
    /\ showUpgradeModal
    /\ isPro' = TRUE
    /\ showUpgradeModal' = FALSE
    /\ UNCHANGED <<API_KEY, step, resumeText, jobDesc, stats, aiResult,
                   inflight, history, rejects, statsCalls>>

\* click on "Maybe later"
MaybeLater ==
    /\ ReportRendered
    /\ showUpgradeModal
    /\ showUpgradeModal' = FALSE
    /\ UNCHANGED <<API_KEY, step, resumeText, jobDesc, stats, aiResult, isPro,
                   inflight, history, rejects, statsCalls>>

Next ==
    \/ \E t \in Texts : TypeResume(t)
    \/ \E j \in JobDescs : TypeJobDesc(j)
    \/ ClickAnalyze
    \/ \E c \in inflight, o \in RemoteOutcomes : RemoteSettles(c, o)
    \/ \E c \in inflight : MockTimerFires(c)
    \/ ClickNewScan
    \/ OpenUpgradeModal
    \/ Unlock
    \/ MaybeLater

Spec == Init /\ [][Next]_vars

\* The App with the timers of the browser: a timer set by setTimeout in
\* mockAIAnalysis fires after its delay, so a pending mock generation does
\* not stay pending forever.
SpecLive == Init /\ [][Next]_vars /\ WF_vars(\E c \in inflight : MockTimerFires(c))

\* The handlers called as functions of the component, in any order: reset
\* and handleAnalyze are not tied to the screen that renders their button.
HandlersNext ==
    \/ \E t \in Texts : TypeResume(t)
    \/ \E j \in JobDescs : TypeJobDesc(j)
    \/ handleAnalyze
    \/ \E c \in inflight, o \in RemoteOutcomes : RemoteSettles(c, o)
    \/ \E c \in inflight : MockTimerFires(c)
    \/ reset

SpecHandlers == Init /\ [][HandlersNext]_vars

----------------------------------------------------------------------------
(* Properties *)

AnalyzeInvoked ==
    \/ rejects' # rejects
    \/ Len(history') # Len(history)
    \/ statsCalls' # statsCalls

\* C1: a handleAnalyze call on a resume text shorter than 50 characters
\* only shows the validation alert: step stays 1, stats and aiResult keep
\* their values, calculateStats is not called and no generator is invoked.
C1_ShortTextRejected ==
    [][ (Len(resumeText) < 50 /\ AnalyzeInvoked) =>
            /\ rejects' = rejects + 1
            /\ step = 1 /\ step' = 1
            /\ stats' = stats
            /\ aiResult' = aiResult
            /\ statsCalls' = statsCalls
            /\ history' = history
            /\ inflight' = inflight ]_vars

C1_Witness ==
    /\ rejects > 0
    /\ Len(resumeText) = 49
    /\ step = 1
    /\ stats = Null
    /\ aiResult = Null
    /\ history = <<>>

\* C2: every submission past validation has exactly one generator
\* invocation in total, remote and mock together, while it is pending and
\* after it has resolved or failed.
C2_ExactlyOneInvocation ==
    \A i \in 1..Len(history) : history[i].remoteCalls + history[i].mockCalls = 1

C2_Witness ==
    /\ step = 3
    /\ Len(history) = 1
    /\ history[1].outcome = "failed"
    /\ history[1].remoteCalls = 1
    /\ history[1].mockCalls = 0

\* C3: the remote generator is invoked for a submission if and only if
\* API_KEY is non-empty and the mock generator if and only if it is empty,
\* for every submission, whatever the texts and the earlier outcomes.
C3_SelectedByCredential ==
    \A i \in 1..Len(history) :
        /\ (history[i].remoteCalls > 0) <=> (API_KEY # <<>>)
        /\ (history[i].mockCalls > 0) <=> (API_KEY = <<>>)

C3_Witness ==
    /\ API_KEY # <<>>
    /\ Len(history) = 2
    /\ history[1].outcome = "failed"
    /\ history[2].remoteCalls = 1
    /\ history[2].mockCalls = 0
    /\ jobDesc = <<>>

C5_StatsAvailable ==
    step \in {2, 3} =>
        /\ stats # Null
        /\ stats = calculateStats(resumeText)
        /\ \A c \in inflight : stats = calculateStats(c.text)

C5_Witness ==
    /\ step = 3
    /\ aiResult = Undefined
    /\ stats # Null
    /\ stats.wordCount = 27

\* C6: for every non-empty text the impactScore and verbScore returned by
\* calculateStats are integers from 0 to 100 and the brevityScore is 40,
\* 80 or 100.
C6_ScoresInRange ==
    (statsCalls = 1 /\ resumeText # <<>>) =>
        /\ stats # Null
        /\ stats.impactScore \in 0..100
        /\ stats.verbScore \in 0..100
        /\ stats.brevityScore \in {40, 80, 100}

C6_Witness ==
    /\ statsCalls = 1
    /\ stats # Null
    /\ quantifiers(resumeText) = 3
    /\ Len(sentences(resumeText)) = 1
    /\ stats.impactScore = 100

\* C7: with avg = wordCount / max(sentenceCount, 1), brevityScore is 40
\* when avg > 25, 100 when 15 < avg <= 25 and 80 when avg <= 15.
C7_BrevityStep ==
    (statsCalls = 1 /\ stats # Null) =>
        LET w == stats.wordCount
            n == Len(sentences(resumeText))
            s == IF n > 1 THEN n ELSE 1
        IN  /\ (w > 25 * s) => stats.brevityScore = 40
            /\ (w <= 25 * s /\ w > 15 * s) => stats.brevityScore = 100
            /\ (w <= 15 * s) => stats.brevityScore = 80

C7_Witness ==
    /\ statsCalls = 1
    /\ stats # Null
    /\ stats.wordCount = 25
    /\ Len(sentences(resumeText)) = 1
    /\ stats.brevityScore = 100

\* C8: the result of the mock generator has missingKeywords Kubernetes,
\* CI/CD, System Design when the job description is non-empty and
\* Leadership, Optimization when it is empty; all its other fields are the
\* same for every text and job description.
C8_MockKeywords ==
    (API_KEY = <<>> /\ step = 3) =>
        /\ aiResult.missingKeywords =
              (IF jobDesc # <<>> THEN <<"Kubernetes", "CI/CD", "System Design">>
               ELSE <<"Leadership", "Optimization">>)
        /\ aiResult.score = 72
        /\ Len(aiResult.bulletPoints) = 2
        /\ aiResult.softSkills = <<"Communication", "Problem Solving">>
        /\ [aiResult EXCEPT !.missingKeywords = <<>>] = MockResult(<<>>)

C8_Witness ==
    /\ API_KEY = <<>>
    /\ step = 3
    /\ jobDesc = <<"S","R","E">>
    /\ Len(resumeText) = 50
    /\ aiResult.missingKeywords = <<"Kubernetes", "CI/CD", "System Design">>

\* C9: at most one generator call is in flight at any time, and a
\* submission starts only from the Input step with nothing in flight and
\* every earlier submission settled and followed by a reset.
C9_OneInFlight ==
    /\ [](Cardinality(inflight) <= 1 /\ (inflight # {} => step = 2))
    /\ [][ Len(history') > Len(history) =>
              /\ step = 1
              /\ inflight = {}
              /\ \A i \in 1..Len(history) :
                    history[i].outcome # "pending" /\ history[i].reset ]_vars

C9_Witness ==
    /\ Len(history) = 2
    /\ step = 2
    /\ Cardinality(inflight) = 1
    /\ history[1].outcome # "pending"
    /\ history[1].reset

FailedAndNotReset ==
    /\ Len(history) > 0
    /\ history[Len(history)].outcome = "failed"
    /\ ~history[Len(history)].reset

\* C11 as stated: after a failed remote generation the session stays on
\* the Analyzing step (step 2) and holds no result object.
C11_StuckOnAnalyzing ==
    FailedAndNotReset => (step = 2 /\ aiResult \in {Null, Undefined})

\* C11 as amended: after a failed remote generation handleAnalyze still
\* advances the session to the Report step (step 3), with aiResult
\* undefined, and it stays there until the user resets.
C11_FailureReachesReport ==
    FailedAndNotReset => (step = 3 /\ aiResult = Undefined)

C11_Witness ==
    /\ FailedAndNotReset
    /\ Len(history) = 2
    /\ step = 3
    /\ aiResult = Undefined
    /\ stats # Null

\* C12: step is always 1, 2 or 3 and changes only from 1 to 2 (a
\* submission that passes validation), from 2 to 3 (the generator of the
\* pending submission settles) and from 3 to 1 (reset).
C12_StepMachine ==
    /\ [](step \in {1, 2, 3})
    /\ [][ step' # step =>
              \/ /\ step = 1 /\ step' = 2
                 /\ Len(resumeText) >= 50
                 /\ Len(history') = Len(history) + 1
              \/ /\ step = 2 /\ step' = 3
                 /\ \E c \in inflight : inflight' = inflight \ {c}
              \/ /\ step = 3 /\ step' = 1
                 /\ Len(history) > 0
                 /\ history'[Len(history)].reset ]_vars

C12_Witness ==
    /\ Len(history) = 2
    /\ history[1].reset
    /\ history[2].outcome = "resolved"
    /\ step = 3

\* C13: without a credential, every submission that passes validation
\* eventually shows the Report step with the mock result (score 72) in
\* aiResult, and the Report step is never shown without it.
C13_MockReachesReport ==
    /\ []((API_KEY = <<>> /\ step = 3) =>
            ("score" \in DOMAIN aiResult /\ aiResult.score = 72))
    /\ (API_KEY = <<>> /\ step = 2) ~>
            (step = 3 /\ "score" \in DOMAIN aiResult /\ aiResult.score = 72)

C13_Witness ==
    /\ API_KEY = <<>>
    /\ Len(history) = 2
    /\ history[2].outcome = "resolved"
    /\ history[2].mockCalls = 1
    /\ step = 3
    /\ jobDesc = <<>>
    /\ aiResult = MockResult(<<"Leadership", "Optimization">>)

ResetInvoked ==
    /\ Len(history) > 0
    /\ ~history[Len(history)].reset
    /\ Len(history') = Len(history)
    /\ history'[Len(history)].reset

\* C14: a reset leaves step at 1, resumeText and jobDesc empty, stats and
\* aiResult null, and does not change isPro or showUpgradeModal.
C14_ResetFrame ==
    [][ ResetInvoked =>
            /\ step' = 1
            /\ resumeText' = <<>>
            /\ jobDesc' = <<>>
            /\ stats' = Null
            /\ aiResult' = Null
            /\ isPro' = isPro
            /\ showUpgradeModal' = showUpgradeModal
            /\ API_KEY' = API_KEY ]_vars

C14_Witness ==
    /\ Len(history) = 1
    /\ history[1].reset
    /\ step = 1
    /\ resumeText = <<>>
    /\ jobDesc = <<>>
    /\ stats = Null
    /\ aiResult = Null
    /\ isPro
    /\ showUpgradeModal

====
